---- MODULE Spec2Model ----
(***************************************************************************)
(* A model of TypedBox2D (src/src/box2d.rs): the axis-aligned box given by *)
(* its min and max corners, and the operations of its box algebra.         *)
(*                                                                         *)
(* Coordinates are fixed-point numbers: the integer n stands for the       *)
(* coordinate n / Scale, so that fractional corners and their rounding can *)
(* be expressed.  Addition, subtraction and comparison of coordinates are  *)
(* those of the integers; floor and ceil round to multiples of Scale.      *)
(***************************************************************************)
EXTENDS Integers, Sequences, FiniteSets, TLC

VARIABLES a, b, pts, op, args, res

vars == <<a, b, pts, op, args, res>>

----------------------------------------------------------------------------
(* Bounds of the model. *)

\* Scale = 2 * HalfScale sub-divisions of one unit.
HalfScale == 1

\* Corner coordinates of the box of the one-box operations: -MaxU..MaxU.
MaxU == 3

\* Corner coordinates of the two boxes of the two-box operations: 0..MaxB.
MaxB == 2

\* Widths and heights passed to inflate: -MaxAmount..MaxAmount.
MaxAmount == 1

\* Coordinates of the points handed to from_points: 0..MaxP.
MaxP == 2

\* Side offsets handed to inner_box and outer_box: -MaxOff..MaxOff.
MaxOff == 1

\* Longest sequence of points handed to from_points.
MaxPts == 3

Scale == 2 * HalfScale

UCoord == (0 - MaxU)..MaxU
BCoord == 0..MaxB
PCoord == 0..MaxP
Amount == (0 - MaxAmount)..MaxAmount
Offset == (0 - MaxOff)..MaxOff

----------------------------------------------------------------------------
(* Collaborators: points, sizes, ordering and rounding helpers. *)

point2(x, y) == [x |-> x, y |-> y]

size2(w, h) == [width |-> w, height |-> h]

point_zero == point2(0, 0)

side_offsets(top, right, bottom, left) ==
    [top |-> top, right |-> right, bottom |-> bottom, left |-> left]

min(x, y) == IF x <= y THEN x ELSE y

max(x, y) == IF x >= y THEN x ELSE y

floor(c) == (c \div Scale) * Scale

ceil(c) == 0 - floor(0 - c)

\* Round: to the nearest whole coordinate, a half away from zero (-25.5 to
\* -26, 36.5 to 37, as test_round asserts); one half is HalfScale
\* sub-divisions.
num_round(c) ==
    IF c >= 0 THEN floor(c + HalfScale) ELSE 0 - floor((0 - c) + HalfScale)

point_round(p) == point2(num_round(p.x), num_round(p.y))

point_floor(p) == point2(floor(p.x), floor(p.y))

point_ceil(p) == point2(ceil(p.x), ceil(p.y))

----------------------------------------------------------------------------
(* TypedBox2D and its operations. *)

new(mn, mx) == [min |-> mn, max |-> mx]

zero == new(point_zero, point_zero)

is_negative(self) == self.max.x < self.min.x \/ self.max.y < self.min.y

is_empty_or_negative(self) ==
    self.max.x <= self.min.x \/ self.max.y <= self.min.y

is_empty(self) == self.min.x = self.max.x \/ self.min.y = self.max.y

intersects(self, other) ==
    /\ self.min.x < other.max.x
    /\ self.max.x > other.min.x
    /\ self.min.y < other.max.y
    /\ self.max.y > other.min.y

intersection_IgnoresSelfMin(self, other) ==
    new(point2(other.min.x, other.min.y),
        point2(min(self.max.x, other.max.x), min(self.max.y, other.max.y)))

intersection(self, other) ==
    new(point2(max(self.min.x, other.min.x), max(self.min.y, other.min.y)),
        point2(min(self.max.x, other.max.x), min(self.max.y, other.max.y)))

None == [some |-> FALSE]

Some(v) == [some |-> TRUE, val |-> v]

try_intersection_EmptyIsNone(self, other) ==
    LET result == intersection(self, other)
    IN  IF is_empty_or_negative(result) THEN None ELSE Some(result)

try_intersection(self, other) ==
    LET result == intersection(self, other)
    IN  IF is_negative(result) THEN None ELSE Some(result)

contains(self, other) ==
    /\ self.min.x <= other.x /\ other.x < self.max.x
    /\ self.min.y < other.y /\ other.y <= self.max.y

contains_box(self, other) ==
    \/ is_empty(other)
    \/ /\ self.min.x <= other.min.x /\ other.max.x <= self.max.x
       /\ self.min.y <= other.min.y /\ other.max.y <= self.max.y

size(self) == size2(self.max.x - self.min.x, self.max.y - self.min.y)

inflate(self, width, height) ==
    new(point2(self.min.x - width, self.min.y - height),
        point2(self.max.x + width, self.max.x + height))

union_KeepsSelfMinX(self, other) ==
    new(point2(self.min.x, min(self.min.y, other.min.y)),
        point2(max(self.max.x, other.max.x), max(self.max.y, other.max.y)))

union_InnerMax(self, other) ==
    new(point2(min(self.min.x, other.min.x), min(self.min.y, other.min.y)),
        point2(min(self.max.x, other.max.x), max(self.max.y, other.max.y)))

union(self, other) ==
    new(point2(min(self.min.x, other.min.x), min(self.min.y, other.min.y)),
        point2(max(self.max.x, other.max.x), max(self.max.y, other.max.y)))

round(self) == new(point_round(self.min), point_round(self.max))

round_in(self) == new(point_ceil(self.min), point_floor(self.max))

round_out_CeilMinY(self) ==
    new(point2(floor(self.min.x), ceil(self.min.y)),
        point2(ceil(self.max.x), ceil(self.max.y)))

round_out(self) ==
    new(point2(floor(self.min.x), floor(self.min.y)),
        point2(ceil(self.max.x), ceil(self.max.y)))

\* A failed debug_assert!: a panic, in builds with debug assertions.
Panic == [panic |-> TRUE]

\* The two debug_assert! of inner_box and outer_box on the box bx they built.
debug_assert_size(bx) == size(bx).width >= 0 /\ size(bx).height >= 0

\* What a call that built bx can return: bx, or, when a debug assertion
\* fails, a panic in a debug build and bx in a release build.
assert_outcomes(bx) == IF debug_assert_size(bx) THEN {bx} ELSE {bx, Panic}

inner_box(self, offsets) ==
    new(point2(self.min.x + offsets.left, self.min.y + offsets.top),
        point2(self.max.x - offsets.right, self.max.y - offsets.bottom))

outer_box_SwappedSides(self, offsets) ==
    new(point2(self.min.x - offsets.right, self.min.y - offsets.bottom),
        point2(self.max.x + offsets.left, self.max.y + offsets.top))

outer_box(self, offsets) ==
    new(point2(self.min.x - offsets.left, self.min.y - offsets.top),
        point2(self.max.x + offsets.right, self.max.y + offsets.bottom))

\* The closure of from_points: widens the running bounds to take in point p.
assign_min_max_NoMaxY(acc, p) ==
    LET min_x == IF p.x < acc.min_x THEN p.x ELSE acc.min_x
        max_x == IF p.x > acc.max_x THEN p.x ELSE acc.max_x
        min_y == IF p.y < acc.min_y THEN p.y ELSE acc.min_y
    IN  [min_x |-> min_x, min_y |-> min_y, max_x |-> max_x, max_y |-> acc.max_y]

assign_min_max(acc, p) ==
    LET min_x == IF p.x < acc.min_x THEN p.x ELSE acc.min_x
        max_x == IF p.x > acc.max_x THEN p.x ELSE acc.max_x
        min_y == IF p.y < acc.min_y THEN p.y ELSE acc.min_y
        max_y == IF p.y > acc.max_y THEN p.y ELSE acc.max_y
    IN  [min_x |-> min_x, min_y |-> min_y, max_x |-> max_x, max_y |-> max_y]

\* The for loop of from_points over the points after the second.
RECURSIVE from_points_loop(_, _)
from_points_loop(acc, points) ==
    IF points = <<>> THEN acc
    ELSE from_points_loop(assign_min_max(acc, Head(points)), Tail(points))

from_points(points) ==
    IF Len(points) = 0 THEN zero
    ELSE LET first == points[1]
             start == [min_x |-> first.x, min_y |-> first.y,
                       max_x |-> first.x, max_y |-> first.y]
         IN  IF Len(points) = 1 THEN zero
             ELSE LET second == assign_min_max(start, points[2])
                      acc == from_points_loop(second, Tail(Tail(points)))
                  IN  new(point2(acc.min_x, acc.min_y),
                          point2(acc.max_x, acc.max_y))

from_size(s) == from_points(<<point_zero, point2(s.width, s.height)>>)

----------------------------------------------------------------------------
(* Input domains. *)

UPoints == {point2(x, y) : x \in UCoord, y \in UCoord}
BPoints == {point2(x, y) : x \in BCoord, y \in BCoord}
PPoints == {point2(x, y) : x \in PCoord, y \in PCoord}

UBoxes == {new(mn, mx) : mn \in UPoints, mx \in UPoints}
BBoxes == {new(mn, mx) : mn \in BPoints, mx \in BPoints}

USizes == {size2(w, h) : w \in UCoord, h \in UCoord}

SideOffsets ==
    {side_offsets(t, r, bt, l) : t \in Offset, r \in Offset,
                                 bt \in Offset, l \in Offset}

PointSeqs == UNION {[1..n -> PPoints] : n \in 0..MaxPts}

NoArgs == <<>>
NoResult == [none |-> TRUE]

is_well_formed(self) == self.min.x <= self.max.x /\ self.min.y <= self.max.y

----------------------------------------------------------------------------
(* One-box operations: the box a is drawn by Init, the scalar and point   *)
(* arguments by the operation.                                            *)

InitUnary ==
    /\ a \in UBoxes
    /\ b = zero
    /\ pts = <<>>
    /\ op = "init"
    /\ args = NoArgs
    /\ res = NoResult

Inflate ==
    \E w \in Amount, h \in Amount :
        /\ op' = "inflate"
        /\ args' = [width |-> w, height |-> h]
        /\ res' = inflate(a, w, h)
        /\ UNCHANGED <<a, b, pts>>

Contains ==
    \E p \in UPoints :
        /\ op' = "contains"
        /\ args' = p
        /\ res' = contains(a, p)
        /\ UNCHANGED <<a, b, pts>>

RoundIn ==
    /\ op' = "round_in"
    /\ args' = NoArgs
    /\ res' = round_in(a)
    /\ UNCHANGED <<a, b, pts>>

RoundOut ==
    /\ op' = "round_out"
    /\ args' = NoArgs
    /\ res' = round_out(a)
    /\ UNCHANGED <<a, b, pts>>

Round ==
    /\ op' = "round"
    /\ args' = NoArgs
    /\ res' = round(a)
    /\ UNCHANGED <<a, b, pts>>

NextUnary == Inflate \/ Contains \/ Round \/ RoundIn \/ RoundOut

SpecUnary == InitUnary /\ [][NextUnary]_vars

----------------------------------------------------------------------------
(* Two-box operations: both boxes are drawn by Init. *)

InitBinary ==
    /\ a \in BBoxes
    /\ b \in BBoxes
    /\ pts = <<>>
    /\ op = "init"
    /\ args = NoArgs
    /\ res = NoResult

Intersects ==
    /\ op' = "intersects"
    /\ res' = intersects(a, b)
    /\ UNCHANGED <<a, b, pts, args>>

Intersection ==
    /\ op' = "intersection"
    /\ res' = intersection(a, b)
    /\ UNCHANGED <<a, b, pts, args>>

TryIntersection ==
    /\ op' = "try_intersection"
    /\ res' = try_intersection(a, b)
    /\ UNCHANGED <<a, b, pts, args>>

Union ==
    /\ op' = "union"
    /\ res' = union(a, b)
    /\ UNCHANGED <<a, b, pts, args>>

ContainsBox ==
    /\ op' = "contains_box"
    /\ res' = contains_box(a, b)
    /\ UNCHANGED <<a, b, pts, args>>

NextBinary ==
    Intersects \/ Intersection \/ TryIntersection \/ Union \/ ContainsBox

SpecBinary == InitBinary /\ [][NextBinary]_vars

----------------------------------------------------------------------------
(* Side-offset operations: the box a and the offsets (args) are drawn by  *)
(* Init.  When a debug assertion fails the result is Panic (debug build)  *)
(* or the box built (release build).                                      *)

InitOffsets ==
    /\ a \in BBoxes
    /\ b = zero
    /\ pts = <<>>
    /\ op = "init"
    /\ args \in SideOffsets
    /\ res = NoResult

InnerBox ==
    \E r \in assert_outcomes(inner_box(a, args)) :
        /\ op' = "inner_box"
        /\ res' = r
        /\ UNCHANGED <<a, b, pts, args>>

OuterBox ==
    \E r \in assert_outcomes(outer_box(a, args)) :
        /\ op' = "outer_box"
        /\ res' = r
        /\ UNCHANGED <<a, b, pts, args>>

NextOffsets == InnerBox \/ OuterBox

SpecOffsets == InitOffsets /\ [][NextOffsets]_vars

----------------------------------------------------------------------------
(* Constructors from points and from a size.  Init draws the sequence of   *)
(* points; from_size draws a size, builds the two-point array [zero, point] *)
(* (recorded in pts) and hands it to from_points.                          *)

InitPoints ==
    /\ a = zero
    /\ b = zero
    /\ pts \in PointSeqs
    /\ op = "init"
    /\ args = NoArgs
    /\ res = NoResult

FromPoints ==
    /\ op' = "from_points"
    /\ args' = NoArgs
    /\ res' = from_points(pts)
    /\ UNCHANGED <<a, b, pts>>

FromSize ==
    \E s \in USizes :
        /\ op' = "from_size"
        /\ args' = s
        /\ pts' = <<point_zero, point2(s.width, s.height)>>
        /\ res' = from_size(s)
        /\ UNCHANGED <<a, b>>

NextPoints == FromPoints \/ FromSize

SpecPoints == InitPoints /\ [][NextPoints]_vars

----------------------------------------------------------------------------
(* Helpers of the properties. *)

SetMin(S) == CHOOSE m \in S : \A e \in S : m <= e

SetMax(S) == CHOOSE m \in S : \A e \in S : m >= e

\* The re-orderings of a sequence.
Reorderings(s) ==
    LET n == Len(s)
        perms == {f \in [1..n -> 1..n] : \A i, j \in 1..n : i # j => f[i] # f[j]}
    IN  {[i \in 1..n |-> s[f[i]]] : f \in perms}

\* f is the largest whole coordinate not above c.
IsFloorOf(f, c) == f % Scale = 0 /\ f <= c /\ c < f + Scale

\* f is the smallest whole coordinate not below c.
IsCeilOf(f, c) == f % Scale = 0 /\ f >= c /\ c > f - Scale

----------------------------------------------------------------------------
(* Properties of the one-box operations (SpecUnary). *)

\* C1: a.inflate(w, h) has min = (a.min.x - w, a.min.y - h) and
\* max = (a.max.x + w, a.max.y + h), so its size is a.size() + (2w, 2h) and
\* its center (min + max) / 2 is that of a.
InflateGrowsBothSides ==
    op = "inflate" =>
        /\ res.min = point2(a.min.x - args.width, a.min.y - args.height)
        /\ res.max = point2(a.max.x + args.width, a.max.y + args.height)
        /\ size(res) = size2(size(a).width + 2 * args.width,
                             size(a).height + 2 * args.height)
        /\ res.min.x + res.max.x = a.min.x + a.max.x
        /\ res.min.y + res.max.y = a.min.y + a.max.y

\* C3: for a box with min.x < max.x and min.y < max.y, contains(p) is true
\* for p on the left face and for p on the top face, and false for every p on
\* the right face or on the bottom face.
ContainsFaceRule ==
    (op = "contains" /\ a.min.x < a.max.x /\ a.min.y < a.max.y) =>
        /\ (args.x = a.min.x /\ a.min.y < args.y /\ args.y < a.max.y)
              => res = TRUE
        /\ (args.y = a.min.y /\ a.min.x < args.x /\ args.x < a.max.x)
              => res = TRUE
        /\ args.x = a.max.x => res = FALSE
        /\ args.y = a.max.y => res = FALSE

\* C10: round_out takes floor of each min coordinate and ceil of each max
\* coordinate, and round_out(a).contains_box(a); round_in takes ceil of each
\* min coordinate and floor of each max coordinate, and if round_in(a) is
\* well-formed then a.contains_box(round_in(a)).
RoundingContainment ==
    /\ op = "round_out" =>
          /\ IsFloorOf(res.min.x, a.min.x) /\ IsFloorOf(res.min.y, a.min.y)
          /\ IsCeilOf(res.max.x, a.max.x) /\ IsCeilOf(res.max.y, a.max.y)
          /\ contains_box(res, a)
    /\ op = "round_in" =>
          /\ IsCeilOf(res.min.x, a.min.x) /\ IsCeilOf(res.min.y, a.min.y)
          /\ IsFloorOf(res.max.x, a.max.x) /\ IsFloorOf(res.max.y, a.max.y)
          /\ is_well_formed(res) => contains_box(a, res)

\* A non-empty box with fractional negative min corner has been rounded out.
RoundingContainmentWitness ==
    /\ op = "round_out"
    /\ ~is_empty_or_negative(a)
    /\ a.min.x < 0 /\ a.min.x % Scale # 0
    /\ a.min.y < 0 /\ a.min.y % Scale # 0
    /\ a.max.x % Scale # 0
    /\ res # a

\* The pixel centres (i + 0.5, j + 0.5), i and j whole, around the boxes.
PixelCenters ==
    LET halves == {i * Scale + HalfScale : i \in (0 - MaxU - 2)..(MaxU + 1)}
    IN  {point2(x, y) : x \in halves, y \in halves}

\* C11: round() maps every corner coordinate c to floor(c + 0.5), and the
\* rounded box has the same set of pixel centers as the original: a.contains
\* of (i + 0.5, j + 0.5) holds if and only if a.round().contains of it does.
RoundKeepsPixelCenters ==
    op = "round" =>
        /\ IsFloorOf(res.min.x, a.min.x + HalfScale)
        /\ IsFloorOf(res.min.y, a.min.y + HalfScale)
        /\ IsFloorOf(res.max.x, a.max.x + HalfScale)
        /\ IsFloorOf(res.max.y, a.max.y + HalfScale)
        /\ \A p \in PixelCenters : contains(a, p) <=> contains(res, p)

----------------------------------------------------------------------------
(* Properties of the constructors (SpecPoints). *)

\* C2: for every size s, negative widths and heights included, from_size(s)
\* has min = (0, 0) and max = (s.width, s.height), so from_size(s).size() = s.
FromSizeAtOrigin ==
    op = "from_size" =>
        /\ res.min = point2(0, 0)
        /\ res.max = point2(args.width, args.height)
        /\ size(res) = args

\* C5: from_points of zero points or of one point is zero(); of two or more
\* points it is the box from (smallest x, smallest y) to (largest x,
\* largest y) over all the points, the same for every order of the points,
\* and well-formed.
FromPointsBoundingBox ==
    op = "from_points" =>
        /\ Len(pts) <= 1 =>
              res = [min |-> [x |-> 0, y |-> 0], max |-> [x |-> 0, y |-> 0]]
        /\ Len(pts) >= 2 =>
              LET xs == {pts[i].x : i \in DOMAIN pts}
                  ys == {pts[i].y : i \in DOMAIN pts}
              IN  /\ res.min = point2(SetMin(xs), SetMin(ys))
                  /\ res.max = point2(SetMax(xs), SetMax(ys))
                  /\ \A q \in Reorderings(pts) : from_points(q) = res
        /\ is_well_formed(res)

\* Three points, the last of which lies above and right of the first two.
FromPointsBoundingBoxWitness ==
    /\ op = "from_points"
    /\ Len(pts) = 3
    /\ pts[3].y > pts[1].y /\ pts[3].y > pts[2].y
    /\ pts[3].x > pts[1].x /\ pts[3].x > pts[2].x
    /\ pts[1] # pts[2]
    /\ res.max = pts[3]

----------------------------------------------------------------------------
(* Properties of the two-box operations (SpecBinary). *)

\* C4: contains_box returns true whenever other is empty, and false whenever
\* other is not empty but self is empty, also when other is a negative box.
ContainsBoxEmptyRule ==
    op = "contains_box" =>
        /\ is_empty(b) => res = TRUE
        /\ (~is_empty(b) /\ is_empty(a)) => res = FALSE

\* C6: if a and b do not intersect then a.intersection(b) is a negative box
\* and a.try_intersection(b) is None.
DisjointIntersectionNegative ==
    (op = "intersection" /\ ~intersects(a, b)) =>
        /\ is_negative(res)
        /\ try_intersection(a, b) = None

\* C7: a.try_intersection(b) is None exactly when a.intersection(b) is
\* negative and Some(a.intersection(b)) otherwise; two well-formed boxes that
\* touch along an edge or corner (zero-area intersection) yield Some.
TryIntersectionStrictNegativity ==
    op = "try_intersection" =>
        LET i == intersection(a, b)
        IN  /\ (res = None) <=> (i.max.x < i.min.x \/ i.max.y < i.min.y)
            /\ (res # None) => res = Some(i)
            /\ (/\ is_well_formed(a) /\ is_well_formed(b)
                /\ is_empty(i) /\ is_well_formed(i))
               => res = Some(i)

\* Two non-empty well-formed boxes that share an edge or a corner only.
TryIntersectionStrictNegativityWitness ==
    /\ op = "try_intersection"
    /\ is_well_formed(a) /\ ~is_empty(a)
    /\ is_well_formed(b) /\ ~is_empty(b)
    /\ a.max.x = b.min.x
    /\ ~intersects(a, b)
    /\ res.some = TRUE

\* C8: for well-formed a and b, a.union(b).contains_box(a) and
\* a.union(b).contains_box(b).
UnionContainsBoth ==
    (op = "union" /\ is_well_formed(a) /\ is_well_formed(b)) =>
        /\ contains_box(res, a)
        /\ contains_box(res, b)

\* Two non-empty well-formed boxes whose union is neither of them.
UnionContainsBothWitness ==
    /\ op = "union"
    /\ is_well_formed(a) /\ ~is_empty(a)
    /\ is_well_formed(b) /\ ~is_empty(b)
    /\ res # a /\ res # b

\* C9: whenever a.intersection(b) is well-formed, a.contains_box of it is
\* true.
IntersectionContained ==
    (op = "intersection" /\ is_well_formed(res)) => contains_box(a, res)

\* A non-empty well-formed intersection that is neither a nor b.
IntersectionContainedWitness ==
    /\ op = "intersection"
    /\ is_well_formed(res) /\ ~is_empty(res)
    /\ res # a /\ res # b

\* C13: intersection and union are commutative for all boxes, well-formed
\* or not: a.intersection(b) = b.intersection(a), a.union(b) = b.union(a).
IntersectionUnionCommute ==
    /\ op = "intersection" => res = intersection(b, a)
    /\ op = "union" => res = union(b, a)

\* The union of an ill-formed box with a different box that is neither of
\* the two operands.
IntersectionUnionCommuteWitness ==
    /\ op = "union"
    /\ ~is_well_formed(a)
    /\ a # b
    /\ res # a /\ res # b

----------------------------------------------------------------------------
(* Properties of the side-offset operations (SpecOffsets). *)

\* C12: for a well-formed box a and offsets with left + right <= width and
\* top + bottom <= height, a.inner_box(offsets) has min = a.min + (left, top)
\* and max = a.max - (right, bottom), both debug assertions hold, and
\* a.inner_box(offsets).outer_box(offsets) = a.
InnerBoxWithinSize ==
    (/\ op = "inner_box"
     /\ is_well_formed(a)
     /\ args.left + args.right <= size(a).width
     /\ args.top + args.bottom <= size(a).height) =>
        /\ res # Panic
        /\ size(res).width >= 0 /\ size(res).height >= 0
        /\ res.min = point2(a.min.x + args.left, a.min.y + args.top)
        /\ res.max = point2(a.max.x - args.right, a.max.y - args.bottom)
        /\ assert_outcomes(outer_box(res, args)) = {a}

\* A box shrunk by positive left, right and top offsets that use up its
\* whole width, with a bottom offset different from the top one.
InnerBoxWithinSizeWitness ==
    /\ op = "inner_box"
    /\ is_well_formed(a)
    /\ args.left > 0 /\ args.right > 0 /\ args.top > 0 /\ args.bottom # args.top
    /\ args.left + args.right = size(a).width
    /\ args.top + args.bottom <= size(a).height
    /\ res # Panic /\ res # a

====
